---- MODULE Spec2Model ----
(***************************************************************************)
(* A model of the 2Do MCP server (src/src/twodo_mcp/server.py): the        *)
(* request model AddTaskInput, the URL builder _build_add_url, and the     *)
(* tool functions with their launch / settle / clipboard-read steps.       *)
(*                                                                         *)
(* Text is modelled as a sequence of one-character strings, so that        *)
(* stripping, percent-encoding, joining and substring search are computed  *)
(* the way the code computes them.  Python's None is the value None below. *)
(***************************************************************************)
EXTENDS Naturals, Sequences, FiniteSets, TLC

VARIABLES
    req,        \* the keyword arguments a client passes for a create request
    built,      \* AddTaskInput(**req) and _build_add_url of it: [st, params, url]
    call,       \* the tool call in progress: its operation, position and locals
    clipboard,  \* the OS clipboard: what pbpaste would print
    trace       \* what the call did so far: launches, sleeps, clipboard reads
                \* (and, with two calls in flight, what the target app did for it)

vars == <<req, built, call, clipboard, trace>>

-----------------------------------------------------------------------------
(* Bounds of the model. *)

\* Longest title drawn for the encoder (before whitespace stripping).
MaxTitleLen == 3
\* Most fields of a create request that differ from AddTaskInput's defaults.
MaxOverrides == 2
\* Most titles in a batch drawn by the model (the code allows up to 50).
MaxBatch == 3
\* Longest text drawn for a paste request (before whitespace stripping).
MaxTextLen == 4

-----------------------------------------------------------------------------
(* Text helpers. *)

None == <<"None">>

\* Printable ASCII, 0x20 .. 0x7E, in code order (0x60 is written <grave>).
ASCII ==
    <<" ", "!", "\"", "#", "$", "%", "&", "'", "(", ")", "*", "+", ",", "-", ".", "/",
      "0", "1", "2", "3", "4", "5", "6", "7", "8", "9", ":", ";", "<", "=", ">", "?",
      "@", "A", "B", "C", "D", "E", "F", "G", "H", "I", "J", "K", "L", "M", "N", "O",
      "P", "Q", "R", "S", "T", "U", "V", "W", "X", "Y", "Z", "[", "\\", "]", "^", "_",
      "<grave>", "a", "b", "c", "d", "e", "f", "g", "h", "i", "j", "k", "l", "m", "n", "o",
      "p", "q", "r", "s", "t", "u", "v", "w", "x", "y", "z", "{", "|", "}", "~">>

HexDigits == <<"0", "1", "2", "3", "4", "5", "6", "7", "8", "9", "A", "B", "C", "D", "E", "F">>
LowerHex == <<"0", "1", "2", "3", "4", "5", "6", "7", "8", "9", "a", "b", "c", "d", "e", "f">>

\* ord(c) for the characters of the model: printable ASCII, tab and newline.
Ord(c) ==
    IF c = "\n" THEN 10
    ELSE IF c = "\t" THEN 9
    ELSE 31 + (CHOOSE i \in 1..Len(ASCII) : ASCII[i] = c)

\* chr(n); a byte outside the model's characters decodes to one placeholder.
Chr(n) ==
    IF n = 10 THEN "\n"
    ELSE IF n = 9 THEN "\t"
    ELSE IF n >= 32 /\ n <= 126 THEN ASCII[n - 31]
    ELSE "<byte>"

IsHex(c) == \E i \in 1..16 : HexDigits[i] = c \/ LowerHex[i] = c
HexVal(c) == (CHOOSE i \in 1..16 : HexDigits[i] = c \/ LowerHex[i] = c) - 1

\* str.strip(): the whitespace characters of the model.
Whitespace == {" ", "\n", "\t"}

RECURSIVE LStrip(_)
LStrip(s) ==
    IF s # <<>> /\ Head(s) \in Whitespace THEN LStrip(Tail(s)) ELSE s

RECURSIVE RStrip(_)
RStrip(s) ==
    IF s # <<>> /\ s[Len(s)] \in Whitespace THEN RStrip(SubSeq(s, 1, Len(s) - 1)) ELSE s

Strip(s) == RStrip(LStrip(s))

\* pydantic's str_strip_whitespace on an optional string field.
StripOpt(v) == IF v = None THEN None ELSE Strip(v)

\* pat in s
Contains(s, pat) ==
    \E i \in 1..(Len(s) + 1) :
        /\ i + Len(pat) - 1 <= Len(s)
        /\ SubSeq(s, i, i + Len(pat) - 1) = pat

\* sep.join(parts)
RECURSIVE Join(_, _)
Join(parts, sep) ==
    IF parts = <<>> THEN <<>>
    ELSE IF Len(parts) = 1 THEN parts[1]
    ELSE parts[1] \o sep \o Join(Tail(parts), sep)

\* s.split(sep) for a one-character separator.
RECURSIVE Split(_, _)
Split(s, sep) ==
    IF \A i \in 1..Len(s) : s[i] # sep THEN <<s>>
    ELSE LET i == CHOOSE j \in 1..Len(s) : s[j] = sep /\ \A k \in 1..(j - 1) : s[k] # sep
         IN  <<SubSeq(s, 1, i - 1)>> \o Split(SubSeq(s, i + 1, Len(s)), sep)

-----------------------------------------------------------------------------
(* urllib.parse.quote and unquote. *)

Letters ==
    {"A", "B", "C", "D", "E", "F", "G", "H", "I", "J", "K", "L", "M", "N", "O", "P", "Q",
     "R", "S", "T", "U", "V", "W", "X", "Y", "Z", "a", "b", "c", "d", "e", "f", "g", "h",
     "i", "j", "k", "l", "m", "n", "o", "p", "q", "r", "s", "t", "u", "v", "w", "x", "y", "z"}
Digits == {"0", "1", "2", "3", "4", "5", "6", "7", "8", "9"}

\* quote's always-safe characters plus its default safe="/".
QuoteSafe == Letters \cup Digits \cup {"_", ".", "-", "~"} \cup {"/"}

\* A mutant of QuoteChar: quote_plus-like, a space becomes "+".
QuoteCharPlus(c) ==
    IF c \in QuoteSafe THEN <<c>>
    ELSE IF c = " " THEN <<"+">>
    ELSE <<"%", HexDigits[(Ord(c) \div 16) + 1], HexDigits[(Ord(c) % 16) + 1]>>

\* One character of quote(): itself when safe, else %XX of its byte.
QuoteChar(c) ==
    IF c \in QuoteSafe THEN <<c>>
    ELSE <<"%", HexDigits[(Ord(c) \div 16) + 1], HexDigits[(Ord(c) % 16) + 1]>>

RECURSIVE quote(_)
quote(s) == IF s = <<>> THEN <<>> ELSE QuoteChar(Head(s)) \o quote(Tail(s))

\* urllib.parse.unquote: %XX with two hex digits is a byte, anything else stays.
RECURSIVE unquote(_)
unquote(s) ==
    IF s = <<>> THEN <<>>
    ELSE IF Head(s) = "%" /\ Len(s) >= 3 /\ IsHex(s[2]) /\ IsHex(s[3])
         THEN <<Chr(16 * HexVal(s[2]) + HexVal(s[3]))>> \o unquote(SubSeq(s, 4, Len(s)))
    ELSE <<Head(s)>> \o unquote(Tail(s))

-----------------------------------------------------------------------------
(* Enums and constants of server.py. *)

TWODO_BASE_URL ==
    <<"t", "w", "o", "d", "o", ":", "/", "/", "x", "-", "c", "a", "l", "l", "b", "a", "c",
      "k", "-", "u", "r", "l">>
TASK_UID_LENGTH == 32
\* AddTaskInput.task: min_length and max_length.
TASK_MIN_LENGTH == 1
TASK_MAX_LENGTH == 500
\* AddMultipleTasksInput.tasks: min_length and max_length.
BATCH_MIN_LENGTH == 1
BATCH_MAX_LENGTH == 50

TaskType_TASK == <<"0">>
TaskType_PROJECT == <<"1">>
TaskType_CHECKLIST == <<"2">>
TaskType == {TaskType_TASK, TaskType_PROJECT, TaskType_CHECKLIST}

Priority_NONE == <<"0">>
Priority_LOW == <<"1">>
Priority_MEDIUM == <<"2">>
Priority_HIGH == <<"3">>
Priority == {Priority_NONE, Priority_LOW, Priority_MEDIUM, Priority_HIGH}

RepeatInterval == {<<"1">>, <<"2">>, <<"3">>, <<"4">>}

\* The query keys _build_add_url writes, and the two the tests also expect.
K_task == <<"t", "a", "s", "k">>
K_type == <<"t", "y", "p", "e">>
K_forlist == <<"f", "o", "r", "l", "i", "s", "t">>
K_note == <<"n", "o", "t", "e">>
K_subtasks == <<"s", "u", "b", "t", "a", "s", "k", "s">>
K_priority == <<"p", "r", "i", "o", "r", "i", "t", "y">>
K_starred == <<"s", "t", "a", "r", "r", "e", "d">>
K_tags == <<"t", "a", "g", "s">>
K_due == <<"d", "u", "e">>
K_dueTime == <<"d", "u", "e", "T", "i", "m", "e">>
K_start == <<"s", "t", "a", "r", "t">>
K_repeat == <<"r", "e", "p", "e", "a", "t">>
K_action == <<"a", "c", "t", "i", "o", "n">>
K_forParentName == <<"f", "o", "r", "P", "a", "r", "e", "n", "t", "N", "a", "m", "e">>
K_forParentTask == <<"f", "o", "r", "P", "a", "r", "e", "n", "t", "T", "a", "s", "k">>
K_ignoreDefaults == <<"i", "g", "n", "o", "r", "e", "D", "e", "f", "a", "u", "l", "t", "s">>
K_saveInClipboard == <<"s", "a", "v", "e", "I", "n", "C", "l", "i", "p", "b", "o", "a", "r", "d">>
K_locations == <<"l", "o", "c", "a", "t", "i", "o", "n", "s">>
K_edit == <<"e", "d", "i", "t">>

-----------------------------------------------------------------------------
(* AddTaskInput: the pydantic model of a create request. *)

\* The field defaults of AddTaskInput (task is required and has none).
AddTaskDefaults ==
    [task_type |-> TaskType_TASK, for_list |-> None, note |-> None, subtasks |-> None,
     priority |-> Priority_NONE, starred |-> FALSE, tags |-> None, due |-> None,
     due_time |-> None, start |-> None, repeat |-> None, action |-> None,
     for_parent_name |-> None, for_parent_task |-> None, ignore_defaults |-> FALSE,
     save_in_clipboard |-> TRUE]

\* Keyword arguments of a create request: the fields of AddTaskInput, left at their
\* defaults unless given, and the two further keywords that clients of the fuller
\* request shape (and tests/test_url_builder.py) pass: locations (None: not passed)
\* and edit ("unset": not passed).
Kwargs(title) ==
    [task_type |-> AddTaskDefaults.task_type, for_list |-> AddTaskDefaults.for_list,
     note |-> AddTaskDefaults.note, subtasks |-> AddTaskDefaults.subtasks,
     priority |-> AddTaskDefaults.priority, starred |-> AddTaskDefaults.starred,
     tags |-> AddTaskDefaults.tags, due |-> AddTaskDefaults.due,
     due_time |-> AddTaskDefaults.due_time, start |-> AddTaskDefaults.start,
     repeat |-> AddTaskDefaults.repeat, action |-> AddTaskDefaults.action,
     for_parent_name |-> AddTaskDefaults.for_parent_name,
     for_parent_task |-> AddTaskDefaults.for_parent_task,
     ignore_defaults |-> AddTaskDefaults.ignore_defaults,
     save_in_clipboard |-> AddTaskDefaults.save_in_clipboard,
     task |-> title,
     locations |-> None, edit |-> "unset"]

\* The keywords of kw that are no field of AddTaskInput.
ExtraKeys(kw) ==
    (IF kw.locations # None THEN {"locations"} ELSE {})
        \cup (IF kw.edit # "unset" THEN {"edit"} ELSE {})

\* AddTaskInput(**kw): extra="forbid", str_strip_whitespace=True, then the length
\* constraints of task.  Either a ValidationError or the validated model.
AddTaskInput(kw) ==
    LET task == Strip(kw.task)
    IN  IF ExtraKeys(kw) # {}
        THEN [ok |-> FALSE, error |-> "extra_forbidden", params |-> None]
        ELSE IF Len(task) < TASK_MIN_LENGTH
        THEN [ok |-> FALSE, error |-> "string_too_short", params |-> None]
        ELSE IF Len(task) > TASK_MAX_LENGTH
        THEN [ok |-> FALSE, error |-> "string_too_long", params |-> None]
        ELSE [ok |-> TRUE, error |-> "",
              params |->
                [task_type |-> kw.task_type, for_list |-> StripOpt(kw.for_list),
                 note |-> StripOpt(kw.note), subtasks |-> StripOpt(kw.subtasks),
                 priority |-> kw.priority, starred |-> kw.starred,
                 tags |-> StripOpt(kw.tags), due |-> StripOpt(kw.due),
                 due_time |-> StripOpt(kw.due_time), start |-> StripOpt(kw.start),
                 repeat |-> kw.repeat, action |-> StripOpt(kw.action),
                 for_parent_name |-> StripOpt(kw.for_parent_name),
                 for_parent_task |-> StripOpt(kw.for_parent_task),
                 ignore_defaults |-> kw.ignore_defaults,
                 save_in_clipboard |-> kw.save_in_clipboard,
                 task |-> task]]

-----------------------------------------------------------------------------
(* _build_add_url *)

\* A mutant of OmitDefault: the enum value is written even when it is the default.
OmitDefaultNever(v, default) == v

\* `x if x != DEFAULT else None` (task_type, priority).
OmitDefault(v, default) == IF v # default THEN v ELSE None

\* `"1" if flag else None` (starred, ignore_defaults, save_in_clipboard).
FlagValue(b) == IF b THEN <<"1">> ELSE None

\* A mutant of FieldMap: dueTime is listed before due.
FieldMapDueTimeFirst(p) ==
    << [key |-> K_type, val |-> OmitDefault(p.task_type, TaskType_TASK), mode |-> "value"],
       [key |-> K_forlist, val |-> p.for_list, mode |-> "quote"],
       [key |-> K_note, val |-> p.note, mode |-> "quote"],
       [key |-> K_subtasks, val |-> p.subtasks, mode |-> "quote"],
       [key |-> K_priority, val |-> OmitDefault(p.priority, Priority_NONE), mode |-> "value"],
       [key |-> K_starred, val |-> FlagValue(p.starred), mode |-> "raw"],
       [key |-> K_tags, val |-> p.tags, mode |-> "quote"],
       [key |-> K_dueTime, val |-> p.due_time, mode |-> "quote"],
       [key |-> K_due, val |-> p.due, mode |-> "quote"],
       [key |-> K_start, val |-> p.start, mode |-> "quote"],
       [key |-> K_repeat, val |-> p.repeat, mode |-> "value"],
       [key |-> K_action, val |-> p.action, mode |-> "quote"],
       [key |-> K_forParentName, val |-> p.for_parent_name, mode |-> "quote"],
       [key |-> K_forParentTask, val |-> p.for_parent_task, mode |-> "quote"],
       [key |-> K_ignoreDefaults, val |-> FlagValue(p.ignore_defaults), mode |-> "raw"],
       [key |-> K_saveInClipboard, val |-> FlagValue(p.save_in_clipboard), mode |-> "raw"] >>

\* field_map: (key, value, mode) in the order the code lists them.
FieldMap(p) ==
    << [key |-> K_type, val |-> OmitDefault(p.task_type, TaskType_TASK), mode |-> "value"],
       [key |-> K_forlist, val |-> p.for_list, mode |-> "quote"],
       [key |-> K_note, val |-> p.note, mode |-> "quote"],
       [key |-> K_subtasks, val |-> p.subtasks, mode |-> "quote"],
       [key |-> K_priority, val |-> OmitDefault(p.priority, Priority_NONE), mode |-> "value"],
       [key |-> K_starred, val |-> FlagValue(p.starred), mode |-> "raw"],
       [key |-> K_tags, val |-> p.tags, mode |-> "quote"],
       [key |-> K_due, val |-> p.due, mode |-> "quote"],
       [key |-> K_dueTime, val |-> p.due_time, mode |-> "quote"],
       [key |-> K_start, val |-> p.start, mode |-> "quote"],
       [key |-> K_repeat, val |-> p.repeat, mode |-> "value"],
       [key |-> K_action, val |-> p.action, mode |-> "quote"],
       [key |-> K_forParentName, val |-> p.for_parent_name, mode |-> "quote"],
       [key |-> K_forParentTask, val |-> p.for_parent_task, mode |-> "quote"],
       [key |-> K_ignoreDefaults, val |-> FlagValue(p.ignore_defaults), mode |-> "raw"],
       [key |-> K_saveInClipboard, val |-> FlagValue(p.save_in_clipboard), mode |-> "raw"] >>

\* One pass of the loop over field_map: the part appended for an entry, if any.
RECURSIVE AppendParts(_, _)
AppendParts(parts, entries) ==
    IF entries = <<>> THEN parts
    ELSE LET e == Head(entries)
         IN  IF e.val = None THEN AppendParts(parts, Tail(entries))
             ELSE IF e.mode = "quote"
                  THEN AppendParts(Append(parts, e.key \o <<"=">> \o quote(e.val)), Tail(entries))
             ELSE AppendParts(Append(parts, e.key \o <<"=">> \o e.val), Tail(entries))

P_add == <<"/", "a", "d", "d", "?">>

\* _build_add_url(params)
build_add_url(p) ==
    LET parts == AppendParts(<< K_task \o <<"=">> \o quote(p.task) >>, FieldMap(p))
    IN  TWODO_BASE_URL \o P_add \o Join(parts, <<"&">>)

\* What a receiver of the URI sees: the query after "?", split on "&", each part
\* split at its first "=" (urllib.parse.parse_qsl without the decoding).
AfterFirst(s, c) ==
    IF \A i \in 1..Len(s) : s[i] # c THEN <<>>
    ELSE LET i == CHOOSE j \in 1..Len(s) : s[j] = c /\ \A k \in 1..(j - 1) : s[k] # c
         IN  SubSeq(s, i + 1, Len(s))

BeforeFirst(s, c) ==
    IF \A i \in 1..Len(s) : s[i] # c THEN s
    ELSE LET i == CHOOSE j \in 1..Len(s) : s[j] = c /\ \A k \in 1..(j - 1) : s[k] # c
         IN  SubSeq(s, 1, i - 1)

QueryPairs(url) ==
    LET parts == Split(AfterFirst(url, "?"), "&")
    IN  [i \in 1..Len(parts) |->
            [key |-> BeforeFirst(parts[i], "="), val |-> AfterFirst(parts[i], "=")]]

\* How many times key k occurs in the query of url.
KeyCount(url, k) ==
    LET q == QueryPairs(url)
    IN  Cardinality({i \in DOMAIN q : q[i].key = k})

\* The (still encoded) value of the first occurrence of key k.
KeyValue(url, k) ==
    LET q == QueryPairs(url)
        i == CHOOSE j \in DOMAIN q : q[j].key = k /\ \A m \in 1..(j - 1) : q[m].key # k
    IN  q[i].val

-----------------------------------------------------------------------------
(* The create requests the model draws. *)

SeqsUpTo(S, n) == UNION {[1..k -> S] : k \in 0..n}

\* Characters of the drawn titles: a letter, whitespace, the query delimiters, the
\* characters quote() keeps or escapes, and a digit that can follow a "%".
TitleAlphabet == {"a", " ", "&", "=", ":", "/", "%", "+", "2"}

T_Meeting == <<"M", "e", "e", "t", "i", "n", "g">>
T_type == <<"t", "y", "p", "e">>
T_Work == <<"W", "o", "r", "k">>
T_due == <<"2", "0", "2", "6", "-", "0", "3", "-", "0", "1">>
T_dueTime == <<"1", "4", ":", "3", "0">>
T_tags == <<"w", ",", "u">>
T_locations == <<"H", "o", "m", "e", ",", "O", "f", "f", "i", "c", "e">>
T_subtasks == <<"M", "\n", "B">>
T_action == <<"u", "r", "l", ":", "/", "/", "e">>
T_uidA == [i \in 1..TASK_UID_LENGTH |-> "A"]

\* Every way to give one more keyword argument a value.
Override1(kw) ==
    {[kw EXCEPT !.task_type = v] : v \in {TaskType_PROJECT, TaskType_CHECKLIST}}
    \cup {[kw EXCEPT !.for_list = v] : v \in {T_Work, <<" ">>, <<" ", "W", "\n">>}}
    \cup {[kw EXCEPT !.note = <<"n", " ", "b">>]}
    \cup {[kw EXCEPT !.subtasks = T_subtasks]}
    \cup {[kw EXCEPT !.priority = v] : v \in {Priority_LOW, Priority_HIGH}}
    \cup {[kw EXCEPT !.starred = TRUE]}
    \cup {[kw EXCEPT !.tags = T_tags]}
    \cup {[kw EXCEPT !.due = v] : v \in {T_due, <<"1">>}}
    \cup {[kw EXCEPT !.due_time = T_dueTime]}
    \cup {[kw EXCEPT !.start = <<"2">>]}
    \cup {[kw EXCEPT !.repeat = v] : v \in {<<"1">>, <<"4">>}}
    \cup {[kw EXCEPT !.action = T_action]}
    \cup {[kw EXCEPT !.for_parent_name = <<"P", " ", "X">>]}
    \cup {[kw EXCEPT !.for_parent_task = T_uidA]}
    \cup {[kw EXCEPT !.ignore_defaults = TRUE]}
    \cup {[kw EXCEPT !.save_in_clipboard = FALSE]}
    \cup {[kw EXCEPT !.locations = T_locations]}
    \cup {[kw EXCEPT !.edit = v] : v \in {"true", "false"}}

RECURSIVE Overrides(_, _)
Overrides(S, n) ==
    IF n = 0 THEN S ELSE Overrides(S \cup UNION {Override1(kw) : kw \in S}, n - 1)

\* Any title up to MaxTitleLen with the other fields at their defaults, and two
\* fixed titles with up to MaxOverrides other keyword arguments given.
EncInputs ==
    {Kwargs(t) : t \in SeqsUpTo(TitleAlphabet, MaxTitleLen)}
    \cup Overrides({Kwargs(T_Meeting), Kwargs(T_type)}, MaxOverrides)

-----------------------------------------------------------------------------
(* Tool calls.  A call is the coroutine of one tool function; pc says which await *)
(* it is suspended at.                                                            *)

\* The calls the host framework may have in flight.
Slots == {1, 2}

NoReturn == [pending |-> TRUE]

\* op: the tool; params: its validated request; url: the URL last built; ok, msg:
\* what _open_url last returned; clip: what _get_clipboard returned; i, item,
\* results: the batch loop's index, member request and result list; ret: the
\* envelope returned; raised: the exception that left the tool function; pb: what
\* the pbpaste subprocess of the call's clipboard read came to.
IdleCall ==
    [i |-> 0, ok |-> FALSE, params |-> None, url |-> None, op |-> "none",
     pc |-> "idle", msg |-> [fmt |-> "None", args |-> <<>>], clip |-> None, item |-> None,
     results |-> <<>>, ret |-> NoReturn, raised |-> "", pb |-> None]

-----------------------------------------------------------------------------
(* The encoder on its own: construct the request model, then build the URL. *)

InitEnc ==
    /\ req \in EncInputs
    /\ built = [error |-> "", params |-> None, url |-> None, st |-> "kwargs"]
    /\ call = [c \in Slots |-> [IdleCall EXCEPT !.pc = "off"]]
    /\ clipboard = <<>>
    /\ trace = [c \in Slots |-> <<>>]

\* params = AddTaskInput(**req): raises ValidationError or yields the model.
ConstructAddTaskInput ==
    /\ built.st = "kwargs"
    /\ LET r == AddTaskInput(req)
       IN  built' = IF r.ok
                    THEN [built EXCEPT !.st = "params", !.params = r.params]
                    ELSE [built EXCEPT !.st = "ValidationError", !.error = r.error]
    /\ UNCHANGED <<req, call, clipboard, trace>>

\* url = _build_add_url(params)
BuildUrl ==
    /\ built.st = "params"
    /\ built' = [built EXCEPT !.st = "url", !.url = build_add_url(built.params)]
    /\ UNCHANGED <<req, call, clipboard, trace>>

NextEnc == ConstructAddTaskInput \/ BuildUrl

SpecEnc == InitEnc /\ [][NextEnc]_vars

-----------------------------------------------------------------------------
(* The process bridge: _run_command, _open_url, _get_clipboard, _read_task_uid. *)

\* What awaiting a subprocess comes to: it exits with a return code and output
\* that decodes, or create_subprocess_exec / wait_for / decode raises.
Exit(rc, out, err) == [rc |-> rc, kind |-> "exit", stdout |-> out, stderr |-> err]
Fault(exc) == [rc |-> 0, kind |-> exc, stdout |-> <<>>, stderr |-> <<>>]

\* The exception classes of the model that are OSError or a subclass of it.
OSErrors == {"FileNotFoundError", "PermissionError", "OSError"}
\* Every exception class of the model; UnicodeDecodeError is a ValueError.
Exceptions == OSErrors \cup {"TimeoutError", "UnicodeDecodeError"}

\* _run_command: (returncode or 0, stdout.decode().strip(), stderr.decode().strip()),
\* or the exception passes through.
run_command(o) ==
    IF o.kind = "exit"
    THEN [raised |-> "", rc |-> o.rc, stdout |-> Strip(o.stdout), stderr |-> Strip(o.stderr)]
    ELSE [raised |-> o.kind, rc |-> 0, stdout |-> <<>>, stderr |-> <<>>]

\* A formatted message: the format string of the code and the values put into it.
Msg(fmt, args) == [fmt |-> fmt, args |-> args]
\* json null in the error slot of a batch item.
NullMsg == Msg("None", <<>>)
\* str(e) of an OSError of the model.
T_errno == <<"E">>

\* _open_url: (success, message), or an exception no except clause names.
open_url(o) ==
    LET r == run_command(o)
    IN  IF r.raised = ""
        THEN IF r.rc = 0
             THEN [ok |-> TRUE, msg |-> Msg("OK", <<>>), raised |-> ""]
             ELSE [ok |-> FALSE, msg |-> Msg("'open' command failed: {stderr}", <<r.stderr>>),
                   raised |-> ""]
        ELSE IF r.raised = "TimeoutError"
        THEN [ok |-> FALSE,
              msg |-> Msg("Timed out waiting for 2Do to respond. Is the app installed?", <<>>),
              raised |-> ""]
        ELSE IF r.raised = "FileNotFoundError"
        THEN [ok |-> FALSE,
              msg |-> Msg("macOS 'open' command not found. This server only runs on macOS.", <<>>),
              raised |-> ""]
        ELSE IF r.raised \in OSErrors
        THEN [ok |-> FALSE, msg |-> Msg("OS error: {e}", <<T_errno>>), raised |-> ""]
        ELSE [ok |-> FALSE, msg |-> NullMsg, raised |-> r.raised]

\* _get_clipboard: stdout whatever the return code, "" for the three excepted
\* classes, or an exception the except clause does not name.
get_clipboard(o) ==
    LET r == run_command(o)
    IN  IF r.raised = "" THEN [raised |-> "", text |-> r.stdout]
        ELSE IF r.raised \in {"TimeoutError", "FileNotFoundError"} \cup OSErrors
        THEN [raised |-> "", text |-> <<>>]
        ELSE [raised |-> r.raised, text |-> <<>>]

\* A mutant of read_task_uid: any non-empty text counts as the identifier.
read_task_uid_any(clip) == IF clip # <<>> THEN clip ELSE None

\* _read_task_uid, after its sleep and its clipboard read: the classification.
read_task_uid(clip) ==
    IF clip # <<>> /\ Len(clip) = TASK_UID_LENGTH THEN clip ELSE None

\* _error_response and _success_response, before json.dumps.
error_response(message) == [error |-> message, success |-> FALSE]
success_response(fields) == [success |-> TRUE] @@ fields

-----------------------------------------------------------------------------
(* The other request models and the URLs their tools build. *)

\* AddMultipleTasksInput: 1 to 50 titles, each stripped, no constraint on a title.
AddMultipleTasksInput(kw) ==
    IF Len(kw.tasks) < BATCH_MIN_LENGTH \/ Len(kw.tasks) > BATCH_MAX_LENGTH
    THEN [ok |-> FALSE, params |-> None]
    ELSE [ok |-> TRUE,
          params |-> [for_list |-> StripOpt(kw.for_list),
                      priority |-> kw.priority, tags |-> StripOpt(kw.tags),
                      due |-> StripOpt(kw.due),
                      tasks |-> [i \in 1..Len(kw.tasks) |-> Strip(kw.tasks[i])]]]

P_paste == <<"/", "p", "a", "s", "t", "e", "?", "t", "e", "x", "t", "=">>
P_inProject == <<"&", "i", "n", "P", "r", "o", "j", "e", "c", "t", "=">>
P_forList == <<"&", "f", "o", "r", "L", "i", "s", "t", "=">>
P_getTaskID == <<"/", "g", "e", "t", "T", "a", "s", "k", "I", "D", "?", "t", "a", "s", "k", "=">>
P_saveInClipboard ==
    <<"&", "s", "a", "v", "e", "I", "n", "C", "l", "i", "p", "b", "o", "a", "r", "d", "=", "1">>
P_showList == <<"/", "s", "h", "o", "w", "L", "i", "s", "t", "?", "n", "a", "m", "e", "=">>
P_showToday == <<"/", "s", "h", "o", "w", "T", "o", "d", "a", "y">>
P_showStarred == <<"/", "s", "h", "o", "w", "S", "t", "a", "r", "r", "e", "d">>
P_showScheduled == <<"/", "s", "h", "o", "w", "S", "c", "h", "e", "d", "u", "l", "e", "d">>
P_showAll == <<"/", "s", "h", "o", "w", "A", "l", "l">>
P_search == <<"/", "s", "e", "a", "r", "c", "h", "?", "t", "e", "x", "t", "=">>
T_default == <<"(", "d", "e", "f", "a", "u", "l", "t", ")">>

paste_url(p) ==
    TWODO_BASE_URL \o P_paste \o quote(p.text) \o P_inProject \o quote(p.in_project)
        \o P_forList \o quote(p.for_list)
get_task_id_url(p) ==
    TWODO_BASE_URL \o P_getTaskID \o quote(p.task) \o P_forList \o quote(p.for_list)
        \o P_saveInClipboard
show_list_url(p) == TWODO_BASE_URL \o P_showList \o quote(p.name)
search_url(p) == TWODO_BASE_URL \o P_search \o quote(p.text)

\* `params.for_list or "(default)"`
ListOrDefault(for_list) ==
    IF for_list = None \/ for_list = <<>> THEN T_default ELSE for_list

\* A mutant of task_count: every line is counted, blank or not.
task_count_all_lines(text) == Len(Split(text, "\n"))

\* len([line for line in text.split("\n") if line.strip()])
task_count(text) ==
    LET lines == Split(text, "\n")
    IN  Cardinality({i \in 1..Len(lines) : Strip(lines[i]) # <<>>})

-----------------------------------------------------------------------------
(* The tool functions, cut at their awaits. *)

\* `return <envelope>` and an exception leaving the tool function.
Returned(cl, envelope) == [cl EXCEPT !.pc = "returned", !.ret = envelope]
Raised(cl, exc) == [cl EXCEPT !.pc = "raised", !.raised = exc]

\* A mutant of twodo_add_task_launched: the diagnostic is wrapped before it is returned.
twodo_add_task_launched_wrapped(cl, ok, msg) ==
    IF ~ok THEN Returned(cl, error_response(Msg("Failed to add task: {message}", msg.args)))
    ELSE IF cl.params.save_in_clipboard THEN [cl EXCEPT !.pc = "settling"]
    ELSE Returned(cl, success_response([task |-> cl.params.task,
                                        list |-> ListOrDefault(cl.params.for_list),
                                        uid |-> None]))

\* A mutant of twodo_add_task_launched: the identifier is read whatever the flag says.
twodo_add_task_launched_always_reads(cl, ok, msg) ==
    IF ~ok THEN Returned(cl, error_response(msg)) ELSE [cl EXCEPT !.pc = "settling"]

\* twodo_add_task from the return of _open_url to its next await or its return.
twodo_add_task_launched(cl, ok, msg) ==
    IF ~ok THEN Returned(cl, error_response(msg))
    ELSE IF cl.params.save_in_clipboard THEN [cl EXCEPT !.pc = "settling"]
    ELSE Returned(cl, success_response([task |-> cl.params.task,
                                        list |-> ListOrDefault(cl.params.for_list),
                                        uid |-> None]))

\* twodo_add_task from the return of _read_task_uid.
twodo_add_task_read(cl, uid) ==
    Returned(cl, success_response([task |-> cl.params.task,
                                   list |-> ListOrDefault(cl.params.for_list),
                                   uid |-> uid]))

\* A mutant of twodo_get_task_id_launched: the clipboard is read without the sleep.
twodo_get_task_id_launched_no_settle(cl, ok, msg) ==
    IF ~ok THEN Returned(cl, error_response(msg)) ELSE [cl EXCEPT !.pc = "reading"]

\* twodo_get_task_id from the return of _open_url.
twodo_get_task_id_launched(cl, ok, msg) ==
    IF ~ok THEN Returned(cl, error_response(msg)) ELSE [cl EXCEPT !.pc = "settling"]

\* twodo_get_task_id from the return of _read_task_uid.
twodo_get_task_id_read(cl, uid) ==
    IF uid = None \/ uid = <<>>
    THEN Returned(cl, error_response(
            Msg("Task '{task}' not found in list '{for_list}'. Check that the title matches exactly (case-sensitive).",
                <<cl.params.task, cl.params.for_list>>)))
    ELSE Returned(cl, success_response([task |-> cl.params.task, list |-> cl.params.for_list,
                                        uid |-> uid]))

\* The fields a tool without identifier echoes on success.
EchoFields(cl) ==
    CASE cl.op = "paste" ->
            [list |-> cl.params.for_list, project |-> cl.params.in_project,
             tasks_added |-> task_count(cl.params.text)]
      [] cl.op = "show_list" -> [list |-> cl.params.name]
      [] cl.op = "search" -> [note |-> "Results displayed in 2Do app", query |-> cl.params.text]
      [] OTHER -> [view |-> cl.params.view]

\* A mutant of twodo_simple_launched: a launched call waits for the clipboard.
twodo_simple_launched_settles(cl, ok, msg) ==
    IF ~ok THEN Returned(cl, error_response(msg)) ELSE [cl EXCEPT !.pc = "settling"]

\* twodo_paste_tasks, twodo_show_*, twodo_search from the return of _open_url.
twodo_simple_launched(cl, ok, msg) ==
    IF ~ok THEN Returned(cl, error_response(msg))
    ELSE Returned(cl, success_response(EchoFields(cl)))

\* twodo_add_multiple_tasks, the head of the loop body for title i: construct the
\* member AddTaskInput (which validates, and may raise), build its URL, await
\* _open_url.
batch_item(cl, i) ==
    LET r == AddTaskInput([Kwargs(cl.params.tasks[i]) EXCEPT
                              !.for_list = cl.params.for_list, !.priority = cl.params.priority,
                              !.tags = cl.params.tags, !.due = cl.params.due,
                              !.save_in_clipboard = FALSE])
    IN  IF ~r.ok THEN Raised([cl EXCEPT !.i = i], "ValidationError")
        ELSE [cl EXCEPT !.i = i, !.item = r.params, !.url = build_add_url(r.params),
                        !.pc = "launching"]

\* A mutant of batch_launched: after a failed launch the next title is launched
\* without the sleep.
batch_launched_no_delay_on_failure(cl, ok, msg) ==
    LET got == [cl EXCEPT !.results = Append(@, [task |-> cl.params.tasks[cl.i],
                                                 error |-> IF ok THEN NullMsg ELSE msg,
                                                 success |-> ok])]
    IN  IF ~ok /\ cl.i < Len(cl.params.tasks)
        THEN batch_item(got, cl.i + 1)
        ELSE [got EXCEPT !.pc = "batch_delay"]

\* The loop body from the return of _open_url: append the result, await the sleep.
batch_launched(cl, ok, msg) ==
    [cl EXCEPT !.results = Append(@, [task |-> cl.params.tasks[cl.i],
                                      error |-> IF ok THEN NullMsg ELSE msg,
                                      success |-> ok]),
               !.pc = "batch_delay"]

\* A mutant of batch_envelope: success is reported when any item succeeded.
batch_envelope_any(cl) ==
    LET successful == Cardinality({j \in DOMAIN cl.results : cl.results[j].success})
        n == Len(cl.params.tasks)
    IN  [results |-> cl.results, success |-> successful > 0, successful |-> successful,
         total |-> n, failed |-> n - successful]

\* The aggregated envelope after the loop.
batch_envelope(cl) ==
    LET successful == Cardinality({j \in DOMAIN cl.results : cl.results[j].success})
        n == Len(cl.params.tasks)
    IN  [results |-> cl.results, success |-> successful = n, successful |-> successful,
         total |-> n, failed |-> n - successful]

-----------------------------------------------------------------------------
(* The environment: what the subprocesses and the clipboard can do. *)

T_uidB == [i \in 1..TASK_UID_LENGTH |-> "B"]

\* Clipboard contents: empty, an identifier, one character short or long of one, an
\* identifier followed by a newline, and a second identifier.
ClipContents ==
    {<<>>, T_uidA, SubSeq(T_uidA, 1, TASK_UID_LENGTH - 1), T_uidA \o <<"A">>,
     T_uidA \o <<"\n">>, T_uidB}

\* `open <url>`: exit 0, a non-zero exit with a diagnostic, or a raised exception.
LaunchOutcomes ==
    {Exit(0, <<>>, <<>>), Exit(1, <<>>, <<"e", "r", "r", "\n">>),
     Fault("TimeoutError"), Fault("FileNotFoundError"), Fault("PermissionError"),
     Fault("UnicodeDecodeError")}

\* `pbpaste`: prints the clipboard; or fails, with or without having printed it.
PbpasteOutcomes(clip) ==
    {Exit(0, clip, <<>>), Exit(1, <<>>, <<"e">>), Exit(1, clip, <<"e">>),
     Fault("TimeoutError"), Fault("FileNotFoundError"), Fault("PermissionError"),
     Fault("UnicodeDecodeError")}

-----------------------------------------------------------------------------
(* The requests the model draws for the tools. *)

AddInputs == {kw \in Overrides({Kwargs(T_Meeting)}, 1) : AddTaskInput(kw).ok}

GetTaskIDInputs ==
    {[for_list |-> Strip(l), task |-> Strip(t)] :
        t \in {T_Meeting, <<" ", "a", "&">>}, l \in {T_Work, <<" ">>}}

T_lines == <<"A", "\n", "\n", "B", "\n", " ", " ", "\n", "C">>
\* The texts a client may pass: the text of test_counts_only_nonempty_lines, one
\* with a tab, and every text up to MaxTextLen of a letter, a space and a newline.
PasteTexts ==
    {T_lines, <<"A", "\n", "\t", "\n", "B", "\n">>}
        \cup SeqsUpTo({"A", " ", "\n"}, MaxTextLen)
\* PasteTasksInput(text=t, ...): stripped, and at least one character is left.
PasteInputs ==
    {[for_list |-> <<"L">>, text |-> Strip(t), in_project |-> <<"P">>] :
        t \in {x \in PasteTexts : Len(Strip(x)) >= 1}}

ShowListInputs == {[name |-> T_Work], [name |-> <<"a", " ", "b">>]}
SearchInputs == {[text |-> <<"t", ":", "o">>], [text |-> <<"x">>]}

\* A title, a title with surrounding whitespace, and a whitespace-only title.
BatchTitles == {<<"a">>, <<" ", "b">>, <<" ">>}
BatchShared ==
    {[for_list |-> None, priority |-> Priority_NONE, tags |-> None, due |-> None],
     [for_list |-> T_Work, priority |-> Priority_HIGH, tags |-> T_tags, due |-> T_due]}
BatchInputs ==
    {[for_list |-> sh.for_list, priority |-> sh.priority, tags |-> sh.tags, due |-> sh.due,
      tasks |-> ts] :
        ts \in UNION {[1..n -> BatchTitles] : n \in 1..MaxBatch}, sh \in BatchShared}

-----------------------------------------------------------------------------
(* The protocol: one call of any tool, against any bridge behaviour. *)

Init ==
    /\ req = Kwargs(T_Meeting)
    /\ built = [error |-> "", params |-> None, url |-> None, st |-> "unused"]
    /\ call = [c \in Slots |-> IF c = 1 THEN IdleCall ELSE [IdleCall EXCEPT !.pc = "off"]]
    /\ clipboard \in ClipContents
    /\ trace = [c \in Slots |-> <<>>]

\* The tool function runs to its first await, the one inside _open_url(url).
Begin(c, op, params, url) ==
    /\ call[c].pc = "idle"
    /\ call' = [call EXCEPT ![c] = [IdleCall EXCEPT !.op = op, !.pc = "launching",
                                                  !.params = params, !.url = url]]
    /\ trace' = [trace EXCEPT ![c] = Append(@, "launch")]
    /\ UNCHANGED <<req, built, clipboard>>

twodo_add_task(c) ==
    \E kw \in AddInputs :
        LET params == AddTaskInput(kw).params
        IN  Begin(c, "add", params, build_add_url(params))

twodo_add_multiple_tasks(c) ==
    \E kw \in BatchInputs :
        /\ call[c].pc = "idle"
        /\ LET cl == batch_item([IdleCall EXCEPT !.op = "add_multiple",
                                                 !.params = AddMultipleTasksInput(kw).params], 1)
           IN  /\ call' = [call EXCEPT ![c] = cl]
               /\ trace' = [trace EXCEPT ![c] =
                                IF cl.pc = "launching" THEN Append(@, "launch")
                                ELSE Append(@, "raised")]
        /\ UNCHANGED <<req, built, clipboard>>

twodo_paste_tasks(c) == \E p \in PasteInputs : Begin(c, "paste", p, paste_url(p))

twodo_get_task_id(c) == \E p \in GetTaskIDInputs : Begin(c, "get_task_id", p, get_task_id_url(p))

twodo_show_list(c) == \E p \in ShowListInputs : Begin(c, "show_list", p, show_list_url(p))

twodo_show_today(c) == Begin(c, "show_today", [view |-> "Today"], TWODO_BASE_URL \o P_showToday)

twodo_show_starred(c) ==
    Begin(c, "show_starred", [view |-> "Starred"], TWODO_BASE_URL \o P_showStarred)

twodo_show_scheduled(c) ==
    Begin(c, "show_scheduled", [view |-> "Scheduled"], TWODO_BASE_URL \o P_showScheduled)

twodo_show_all(c) == Begin(c, "show_all", [view |-> "All"], TWODO_BASE_URL \o P_showAll)

twodo_search(c) == \E p \in SearchInputs : Begin(c, "search", p, search_url(p))

\* What a step adds to the trace, from the await the call moved to.
Entered(cl) ==
    CASE cl.pc = "launching" -> <<"launch">>
      [] cl.pc = "settling" -> <<"settle">>
      [] cl.pc = "reading" -> <<"clip_read">>
      [] cl.pc = "batch_delay" -> <<"delay">>
      [] cl.pc = "returned" -> <<"return">>
      [] cl.pc = "raised" -> <<"raised">>
      [] OTHER -> <<>>

\* `await _open_url(url)` completes, and the tool function runs on to its next
\* await, its return, or the exception that leaves it.
OpenUrlReturns(c) ==
    /\ call[c].pc = "launching"
    /\ \E o \in LaunchOutcomes :
        LET r == open_url(o)
            got == [call[c] EXCEPT !.ok = r.ok, !.msg = r.msg]
            cl == IF r.raised # "" THEN Raised(call[c], r.raised)
                  ELSE CASE got.op = "add" -> twodo_add_task_launched(got, r.ok, r.msg)
                         [] got.op = "get_task_id" -> twodo_get_task_id_launched(got, r.ok, r.msg)
                         [] got.op = "add_multiple" -> batch_launched(got, r.ok, r.msg)
                         [] OTHER -> twodo_simple_launched(got, r.ok, r.msg)
        IN  /\ call' = [call EXCEPT ![c] = cl]
            /\ trace' = [trace EXCEPT ![c] =
                            Append(@, IF r.raised # "" THEN "launch_raised"
                                      ELSE IF r.ok THEN "launch_ok" ELSE "launch_failed")
                                \o Entered(cl)]
    /\ UNCHANGED <<req, built, clipboard>>

\* `await asyncio.sleep(CLIPBOARD_WAIT_SECONDS)` in _read_task_uid is over; pbpaste
\* is started.
SettleElapsed(c) ==
    /\ call[c].pc = "settling"
    /\ call' = [call EXCEPT ![c].pc = "reading"]
    /\ trace' = [trace EXCEPT ![c] = Append(@, "clip_read")]
    /\ UNCHANGED <<req, built, clipboard>>

\* A mutant of ClipboardReadReturns: the read takes the text off the clipboard.
ClipboardReadReturnsAndClears(c) ==
    /\ call[c].pc = "reading"
    /\ \E o \in PbpasteOutcomes(clipboard) :
        LET r == get_clipboard(o)
            got == [call[c] EXCEPT !.pb = o]
            cl == IF r.raised # "" THEN Raised(got, r.raised)
                  ELSE IF got.op = "add"
                       THEN twodo_add_task_read([got EXCEPT !.clip = r.text],
                                                read_task_uid(r.text))
                  ELSE twodo_get_task_id_read([got EXCEPT !.clip = r.text],
                                              read_task_uid(r.text))
        IN  /\ call' = [call EXCEPT ![c] = cl]
            /\ trace' = [trace EXCEPT ![c] = Append(@, "clip_done") \o Entered(cl)]
    /\ clipboard' = <<>>
    /\ UNCHANGED <<req, built>>

\* `await _get_clipboard()` completes with what the clipboard holds now.
ClipboardReadReturns(c) ==
    /\ call[c].pc = "reading"
    /\ \E o \in PbpasteOutcomes(clipboard) :
        LET r == get_clipboard(o)
            got == [call[c] EXCEPT !.pb = o]
            cl == IF r.raised # "" THEN Raised(got, r.raised)
                  ELSE IF got.op = "add"
                       THEN twodo_add_task_read([got EXCEPT !.clip = r.text],
                                                read_task_uid(r.text))
                  ELSE twodo_get_task_id_read([got EXCEPT !.clip = r.text],
                                              read_task_uid(r.text))
        IN  /\ call' = [call EXCEPT ![c] = cl]
            /\ trace' = [trace EXCEPT ![c] = Append(@, "clip_done") \o Entered(cl)]
    /\ UNCHANGED <<req, built, clipboard>>

\* `await asyncio.sleep(BATCH_DELAY_SECONDS)` is over: the next title, or the
\* aggregation after the loop.
BatchDelayElapsed(c) ==
    /\ call[c].pc = "batch_delay"
    /\ LET cl == IF call[c].i < Len(call[c].params.tasks)
                 THEN batch_item(call[c], call[c].i + 1)
                 ELSE Returned(call[c], batch_envelope(call[c]))
       IN  /\ call' = [call EXCEPT ![c] = cl]
           /\ trace' = [trace EXCEPT ![c] = Append(@, "delay_done") \o Entered(cl)]
    /\ UNCHANGED <<req, built, clipboard>>

\* The target app, or anything else, replaces the clipboard while a call waits for
\* it.  (A write at another moment is covered by the arbitrary initial clipboard.)
ClipboardWritten ==
    /\ \E c \in Slots : call[c].pc = "settling"
    /\ \E t \in ClipContents : t # clipboard /\ clipboard' = t
    /\ UNCHANGED <<req, built, call, trace>>

Next ==
    \/ \E c \in Slots :
        \/ twodo_add_task(c)
        \/ twodo_add_multiple_tasks(c)
        \/ twodo_paste_tasks(c)
        \/ twodo_get_task_id(c)
        \/ twodo_show_list(c)
        \/ twodo_show_today(c)
        \/ twodo_show_starred(c)
        \/ twodo_show_scheduled(c)
        \/ twodo_show_all(c)
        \/ twodo_search(c)
        \/ OpenUrlReturns(c)
        \/ SettleElapsed(c)
        \/ ClipboardReadReturns(c)
        \/ BatchDelayElapsed(c)
    \/ ClipboardWritten

Spec == Init /\ [][Next]_vars

-----------------------------------------------------------------------------
(* Properties of the encoder, checked under SpecEnc. *)

\* The optional fields of p with the key each is written under.
OptionalFields(p) ==
    << <<K_forlist, p.for_list>>, <<K_note, p.note>>, <<K_subtasks, p.subtasks>>,
       <<K_tags, p.tags>>, <<K_due, p.due>>, <<K_dueTime, p.due_time>>,
       <<K_start, p.start>>, <<K_repeat, p.repeat>>, <<K_action, p.action>>,
       <<K_forParentName, p.for_parent_name>>, <<K_forParentTask, p.for_parent_task>> >>

Once(b) == IF b THEN 1 ELSE 0

\* Every field but save_in_clipboard: its key is in the query once when the field
\* differs from its default and not at all when it holds it; and the URI of a
\* default kind (priority) has no "type=" ("priority=") anywhere, that of another
\* kind (priority) has.
DefaultOmission(p, u) ==
    /\ KeyCount(u, K_task) = 1
    /\ KeyCount(u, K_type) = Once(p.task_type # AddTaskDefaults.task_type)
    /\ KeyCount(u, K_priority) = Once(p.priority # AddTaskDefaults.priority)
    /\ KeyCount(u, K_starred) = Once(p.starred # AddTaskDefaults.starred)
    /\ KeyCount(u, K_ignoreDefaults) = Once(p.ignore_defaults # AddTaskDefaults.ignore_defaults)
    /\ \A i \in DOMAIN OptionalFields(p) :
          KeyCount(u, OptionalFields(p)[i][1]) = Once(OptionalFields(p)[i][2] # None)
    /\ Contains(u, K_type \o <<"=">>) <=> p.task_type # TaskType_TASK
    /\ Contains(u, K_priority \o <<"=">>) <=> p.priority # Priority_NONE
    /\ p.task_type = TaskType_PROJECT => Contains(u, K_type \o <<"=", "1">>)
    /\ p.priority = Priority_HIGH => Contains(u, K_priority \o <<"=", "3">>)

\* C1 as stated: a key is written if and only if its field holds a non-default
\* value, save_in_clipboard (default true) included.
C1_Original ==
    built.st = "url" =>
        /\ DefaultOmission(built.params, built.url)
        /\ KeyCount(built.url, K_saveInClipboard)
              = Once(built.params.save_in_clipboard # AddTaskDefaults.save_in_clipboard)

\* C1, amended: every field other than save_in_clipboard contributes its key once
\* when it holds a non-default value and no key when it holds its default;
\* save_in_clipboard contributes saveInClipboard=1 exactly when it is true, which is
\* its default, and no key when it is false.
C1_DefaultOmission ==
    built.st = "url" =>
        /\ DefaultOmission(built.params, built.url)
        /\ KeyCount(built.url, K_saveInClipboard) = Once(built.params.save_in_clipboard)
        /\ built.params.save_in_clipboard =>
              Contains(built.url, <<"&">> \o K_saveInClipboard \o <<"=", "1">>)

C1_Witness ==
    /\ built.st = "url"
    /\ built.params.task_type = TaskType_PROJECT
    /\ built.params.priority = Priority_HIGH
    /\ built.params.for_list = None
    /\ built.params.save_in_clipboard
    /\ KeyCount(built.url, K_type) = 1
    /\ KeyCount(built.url, K_forlist) = 0

\* C9: the task value of the built URI percent-decodes to the stripped title, holds
\* no raw "&", "=", space or "+", and the query has exactly the keys of the request:
\* the title neither adds nor hides one.
C9_TitleRoundTrip ==
    built.st = "url" =>
        LET v == KeyValue(built.url, K_task)
            given == {i \in DOMAIN FieldMap(built.params) : FieldMap(built.params)[i].val # None}
        IN  /\ unquote(v) = Strip(req.task)
            /\ unquote(v) = built.params.task
            /\ \A i \in 1..Len(v) : v[i] \notin {"&", "=", " ", "+"}
            /\ QueryPairs(built.url)[1].key = K_task
            /\ Len(QueryPairs(built.url)) = 1 + Cardinality(given)

C9_Witness ==
    /\ built.st = "url"
    /\ built.params.task = <<"&", " ", "=">>
    /\ KeyValue(built.url, K_task) = <<"%", "2", "6", "%", "2", "0", "%", "3", "D">>

\* C10: a create request with locations or edit is accepted, and its URI carries
\* locations=<quoted value>, edit=1 for edit true, and no edit key for edit false.
C10_LocationsAndEdit ==
    (built.st \in {"ValidationError", "url"} /\ ExtraKeys(req) # {}) =>
        /\ built.st = "url"
        /\ req.locations # None =>
              Contains(built.url, K_locations \o <<"=">> \o quote(Strip(req.locations)))
        /\ req.edit = "true" => Contains(built.url, K_edit \o <<"=", "1">>)
        /\ req.edit = "false" => KeyCount(built.url, K_edit) = 0

-----------------------------------------------------------------------------
(* Properties of the protocol, checked under Spec. *)

Has(tr, e) == \E k \in 1..Len(tr) : tr[k] = e
Count(tr, e) == Cardinality({k \in 1..Len(tr) : tr[k] = e})
Ended(c) == call[c].pc \in {"returned", "raised"}

\* The tools that launch once: every tool but twodo_add_multiple_tasks.
SingleLaunchOps ==
    {"add", "paste", "get_task_id", "show_list", "show_today", "show_starred",
     "show_scheduled", "show_all", "search"}

\* C2: whatever the bridge does while launching or reading the clipboard, no
\* exception leaves a tool function: every call that ends ends by returning an
\* envelope, and a launch that raised ends in a failure envelope.
C2_NoFaultEscapes ==
    \A c \in Slots :
        /\ ~(call[c].pc = "raised" /\ call[c].raised \in Exceptions)
        /\ Has(trace[c], "launch_raised") =>
              /\ call[c].pc = "returned"
              /\ call[c].ret.success = FALSE

\* The launch results of a trace, in order.
IsLaunchResult(e) == e \in {"launch_ok", "launch_failed", "launch_raised"}
LaunchResults(tr) == SelectSeq(tr, IsLaunchResult)

\* C3: the envelope a batch call returns has one result per title, in the order of
\* the titles, total = N, successful + failed = N, successful = the number of
\* launches that succeeded, and success exactly when failed = 0.
C3_BatchEnvelope ==
    \A c \in Slots :
        (call[c].op = "add_multiple" /\ call[c].pc = "returned") =>
            LET e == call[c].ret
                titles == call[c].params.tasks
                n == Len(titles)
                launched == LaunchResults(trace[c])
            IN  /\ n >= BATCH_MIN_LENGTH /\ n <= BATCH_MAX_LENGTH
                /\ Len(e.results) = n
                /\ Len(launched) = n
                /\ \A j \in 1..n :
                      /\ e.results[j].task = titles[j]
                      /\ e.results[j].success <=> launched[j] = "launch_ok"
                /\ e.total = n
                /\ e.successful + e.failed = n
                /\ e.successful = Count(trace[c], "launch_ok")
                /\ e.success <=> e.failed = 0

C3_Witness ==
    \E c \in Slots :
        /\ call[c].op = "add_multiple" /\ call[c].pc = "returned"
        /\ call[c].ret.total = MaxBatch
        /\ call[c].ret.successful = 1
        /\ call[c].ret.failed = MaxBatch - 1
        /\ ~call[c].ret.success

\* C4: a batch call that ends has attempted a launch for every title and ends by
\* returning the aggregated envelope.
C4_NoItemAbortsSiblings ==
    \A c \in Slots :
        (call[c].op = "add_multiple" /\ Ended(c)) =>
            /\ call[c].pc = "returned"
            /\ Count(trace[c], "launch") = Len(call[c].params.tasks)

\* C5: a single-launch call whose launch reported failure returns success = false
\* with exactly the diagnostic _open_url gave, after no settle delay and no
\* clipboard read.
C5_LaunchFailure ==
    \A c \in Slots :
        (call[c].op \in SingleLaunchOps /\ Has(trace[c], "launch_failed")) =>
            /\ call[c].pc = "returned"
            /\ call[c].ret = [error |-> call[c].msg, success |-> FALSE]
            /\ call[c].msg # NullMsg
            /\ ~Has(trace[c], "settle")
            /\ ~Has(trace[c], "clip_read")
            /\ trace[c] = <<"launch", "launch_failed", "return">>

C5_Witness ==
    \E c \in Slots :
        /\ call[c].op = "get_task_id" /\ call[c].pc = "returned"
        /\ Has(trace[c], "launch_failed")
        /\ call[c].ret.error = Msg("'open' command failed: {stderr}", << <<"e", "r", "r">> >>)

NotFoundFmt ==
    "Task '{task}' not found in list '{for_list}'. Check that the title matches exactly (case-sensitive)."

\* C6: a lookup whose launch succeeded and whose clipboard read returned a text:
\* a text of exactly 32 characters gives success with that text as uid and the
\* echoed task and list; any other text gives the not-found failure without uid.
C6_Lookup ==
    \A c \in Slots :
        (call[c].op = "get_task_id" /\ Has(trace[c], "clip_done") /\ call[c].clip # None) =>
            /\ call[c].pc = "returned"
            /\ IF Len(call[c].clip) = TASK_UID_LENGTH
               THEN call[c].ret = [task |-> call[c].params.task, success |-> TRUE,
                                   list |-> call[c].params.for_list, uid |-> call[c].clip]
               ELSE call[c].ret =
                        [error |-> Msg(NotFoundFmt, <<call[c].params.task, call[c].params.for_list>>),
                         success |-> FALSE]

C6_Witness ==
    \E c \in Slots :
        /\ call[c].op = "get_task_id" /\ call[c].pc = "returned"
        /\ clipboard = T_uidA \o <<"\n">>
        /\ call[c].clip = T_uidA
        /\ call[c].ret.success /\ call[c].ret.uid = T_uidA

\* C7: a create request with save_in_clipboard false has no saveInClipboard key in
\* its URI, never sleeps for or reads the clipboard, and returns uid null when its
\* launch succeeds; the same for every member request of a batch call.
C7_NoIdentifierRequested ==
    \A c \in Slots :
        /\ (call[c].op = "add" /\ ~call[c].params.save_in_clipboard) =>
              /\ KeyCount(call[c].url, K_saveInClipboard) = 0
              /\ ~Has(trace[c], "settle") /\ ~Has(trace[c], "clip_read")
              /\ Has(trace[c], "launch_ok") =>
                    /\ call[c].pc = "returned"
                    /\ call[c].ret.success
                    /\ call[c].ret.uid = None
        /\ (call[c].op = "add_multiple" /\ Has(trace[c], "launch")) =>
              /\ ~call[c].item.save_in_clipboard
              /\ KeyCount(call[c].url, K_saveInClipboard) = 0
              /\ ~Has(trace[c], "settle") /\ ~Has(trace[c], "clip_read")

C7_Witness ==
    \E c \in Slots :
        /\ call[c].op = "add" /\ ~call[c].params.save_in_clipboard
        /\ call[c].pc = "returned" /\ call[c].ret.success /\ call[c].ret.uid = None
        /\ clipboard = T_uidA

\* C8: a create request with save_in_clipboard true whose launch succeeded ends by
\* returning success = true whatever the clipboard read comes to; uid is the text
\* read when that is exactly 32 characters and null otherwise.
C8_BestEffortUid ==
    \A c \in Slots :
        (call[c].op = "add" /\ call[c].params.save_in_clipboard
            /\ Has(trace[c], "launch_ok") /\ Ended(c)) =>
            /\ call[c].pc = "returned"
            /\ call[c].ret.success
            /\ call[c].ret.uid =
                  IF Len(call[c].clip) = TASK_UID_LENGTH THEN call[c].clip ELSE None
            /\ call[c].ret.uid = None \/ Len(call[c].ret.uid) = TASK_UID_LENGTH

\* The keys a success envelope of each tool carries besides success.
EchoKeys(op) ==
    CASE op \in {"add", "get_task_id"} -> {"task", "list", "uid"}
      [] op = "add_multiple" -> {"total", "successful", "failed", "results"}
      [] op = "paste" -> {"project", "list", "tasks_added"}
      [] op = "show_list" -> {"list"}
      [] op = "search" -> {"query", "note"}
      [] OTHER -> {"view"}

\* C11: every call that ends has returned one envelope; an envelope with
\* success = false carries an error string, and one with success = true carries no
\* error key and the echoed fields of its tool.
C11_OneEnvelope ==
    \A c \in Slots :
        Ended(c) =>
            /\ call[c].pc = "returned"
            /\ ~call[c].ret.success =>
                  /\ "error" \in DOMAIN call[c].ret
                  /\ call[c].ret.error # NullMsg
            /\ call[c].ret.success =>
                  /\ "error" \notin DOMAIN call[c].ret
                  /\ EchoKeys(call[c].op) \subseteq DOMAIN call[c].ret

\* The tools that never request an identifier.
NoIdentifierOps ==
    {"paste", "show_list", "show_today", "show_starred", "show_scheduled", "show_all",
     "search"}

\* The subject a tool without identifier echoes, from its request.
EchoesSubject(cl) ==
    CASE cl.op = "paste" ->
            cl.ret.project = cl.params.in_project /\ cl.ret.list = cl.params.for_list
      [] cl.op = "show_list" -> cl.ret.list = cl.params.name
      [] cl.op = "search" -> cl.ret.query = cl.params.text
      [] cl.op = "show_today" -> cl.ret.view = "Today"
      [] cl.op = "show_starred" -> cl.ret.view = "Starred"
      [] cl.op = "show_scheduled" -> cl.ret.view = "Scheduled"
      [] cl.op = "show_all" -> cl.ret.view = "All"

\* C12: paste, the five show tools and search never sleep for or read the clipboard;
\* when the launch reports success the very next thing they do is return a success
\* envelope that echoes their subject and holds nothing else, whatever the clipboard
\* holds.
C12_NoConfirmStep ==
    \A c \in Slots :
        call[c].op \in NoIdentifierOps =>
            /\ ~Has(trace[c], "settle")
            /\ ~Has(trace[c], "clip_read")
            /\ ~Has(trace[c], "clip_done")
            /\ call[c].clip = None
            /\ Has(trace[c], "launch_ok") =>
                  /\ trace[c] = <<"launch", "launch_ok", "return">>
                  /\ call[c].pc = "returned"
                  /\ call[c].ret.success
                  /\ EchoesSubject(call[c])
                  /\ DOMAIN call[c].ret = {"success"} \cup EchoKeys(call[c].op)

C12_Witness ==
    \E c \in Slots :
        /\ call[c].op = "search" /\ call[c].pc = "returned"
        /\ call[c].ret.success
        /\ call[c].ret.query = <<"t", ":", "o">>
        /\ clipboard = T_uidB

\* The positions of text at which a line starts: the first, and the one after
\* each newline.
LineStarts(text) == {1} \cup {j + 1 : j \in {k \in 1..Len(text) : text[k] = "\n"}}

\* The line starting at i holds a character that is not whitespace.
LineHasInk(text, i) ==
    \E k \in i..Len(text) :
        /\ text[k] \notin Whitespace
        /\ \A m \in i..k : text[m] # "\n"

NonBlankLines(text) == Cardinality({i \in LineStarts(text) : LineHasInk(text, i)})

\* C13: a paste call whose launch succeeded reports as tasks_added the number of
\* lines of the text the client passed that hold a non-whitespace character.
C13_TasksAdded ==
    \A c \in Slots :
        (call[c].op = "paste" /\ Has(trace[c], "launch_ok")) =>
            /\ call[c].pc = "returned"
            /\ call[c].ret.success
            /\ \A raw \in PasteTexts :
                  Strip(raw) = call[c].params.text =>
                      call[c].ret.tasks_added = NonBlankLines(raw)

C13_Witness ==
    \E c \in Slots :
        /\ call[c].op = "paste" /\ call[c].pc = "returned"
        /\ call[c].params.text = T_lines
        /\ Len(Split(T_lines, "\n")) = 5
        /\ call[c].ret.tasks_added = 3

\* C14: a clipboard read whose pbpaste failed (a non-zero exit, a timeout, a missing
\* command, an OS error, undecodable output) gives the caller the empty string and
\* raises nothing; a non-empty text comes only from a read that succeeded.
C14_ClipboardRead ==
    \A c \in Slots :
        Has(trace[c], "clip_done") =>
            LET failed == call[c].pb.kind # "exit" \/ call[c].pb.rc # 0
            IN  /\ call[c].pc # "raised"
                /\ failed => call[c].clip = <<>>
                /\ call[c].clip \notin {<<>>, None} => ~failed

-----------------------------------------------------------------------------
(* Two calls in flight at once, and the target app answering each of them. *)

\* The identifier 2Do has for the task of the call in slot c.
UidOf(c) == IF c = 1 THEN T_uidA ELSE T_uidB
\* An identifier an earlier call left on the clipboard.
T_uidStale == [i \in 1..TASK_UID_LENGTH |-> "S"]

\* The identifier-requesting requests drawn for the two calls.
RaceAddInputs == {Kwargs(T_Meeting), [Kwargs(T_Meeting) EXCEPT !.for_list = T_Work]}
RaceGetTaskIDInputs == {[for_list |-> T_Work, task |-> T_Meeting]}

InitRace ==
    /\ req = Kwargs(T_Meeting)
    /\ built = [error |-> "", params |-> None, url |-> None, st |-> "unused"]
    /\ call = [c \in Slots |-> IdleCall]
    /\ clipboard \in {<<>>, T_uidStale}
    /\ trace = [c \in Slots |-> <<>>]

\* twodo_add_task with save_in_clipboard left at its default.
RaceAddTask(c) ==
    \E kw \in RaceAddInputs :
        LET params == AddTaskInput(kw).params
        IN  Begin(c, "add", params, build_add_url(params))

RaceGetTaskID(c) ==
    \E p \in RaceGetTaskIDInputs : Begin(c, "get_task_id", p, get_task_id_url(p))

\* 2Do, handed a URL with saveInClipboard=1, puts the identifier of that call's
\* task on the clipboard: at any moment after the launch, once per call.
AppWritesUid(c) ==
    /\ Has(trace[c], "launch_ok")
    /\ Contains(call[c].url, P_saveInClipboard)
    /\ ~Has(trace[c], "app_write")
    /\ clipboard' = UidOf(c)
    /\ trace' = [trace EXCEPT ![c] = Append(@, "app_write")]
    /\ UNCHANGED <<req, built, call>>

NextRace ==
    \E c \in Slots :
        \/ RaceAddTask(c)
        \/ RaceGetTaskID(c)
        \/ OpenUrlReturns(c)
        \/ SettleElapsed(c)
        \/ ClipboardReadReturns(c)
        \/ AppWritesUid(c)

SpecRace == InitRace /\ [][NextRace]_vars

\* The success envelope of call cl for identifier uid: its own request and uid.
UidEnvelope(cl, uid) ==
    [task |-> cl.params.task, success |-> TRUE,
     list |-> IF cl.op = "add" THEN ListOrDefault(cl.params.for_list) ELSE cl.params.for_list,
     uid |-> uid]

\* C15: the clipboard is all that two calls share, and nothing guards it.  A step
\* in which a call's clipboard read completes and the call returns changes no other
\* call and leaves the clipboard as it is; the identifier the call returns is what
\* the clipboard holds at that moment, whichever call the app wrote it for; and the
\* envelope is made of the call's own request and that identifier, nothing else.
C15_LastWriterWins ==
    [][\A c \in Slots :
          (call[c].pc = "reading" /\ call'[c].pc = "returned") =>
              /\ clipboard' = clipboard
              /\ \A d \in Slots \ {c} : call'[d] = call[d] /\ trace'[d] = trace[d]
              /\ (call'[c].ret.success /\ call'[c].ret.uid # None) =>
                    /\ call'[c].ret.uid = clipboard
                    /\ call'[c].ret = UidEnvelope(call[c], clipboard)]_vars

\* Both calls were launched, the app wrote the identifier of each, and the call in
\* slot c returned success with the identifier of the other call, in an envelope
\* of the same shape as the other's.
C15_Witness ==
    \E c \in Slots : \E d \in Slots \ {c} :
        /\ Has(trace[c], "app_write") /\ Has(trace[d], "app_write")
        /\ call[c].pc = "returned" /\ call[c].ret.success
        /\ call[c].ret.uid = UidOf(d)
        /\ call[d].pc = "returned" /\ call[d].ret.success
        /\ call[d].ret.uid = UidOf(d)
        /\ DOMAIN call[c].ret = DOMAIN call[d].ret

-----------------------------------------------------------------------------
(* More properties of the encoder, checked under SpecEnc. *)

\* The keys of a create URI in the order C16 gives them.
KeyOrder ==
    <<K_task, K_type, K_forlist, K_note, K_subtasks, K_priority, K_starred, K_tags,
      K_due, K_dueTime, K_start, K_repeat, K_action, K_forParentName, K_forParentTask,
      K_ignoreDefaults, K_saveInClipboard>>

KeyIndex(k) == CHOOSE i \in 1..Len(KeyOrder) : KeyOrder[i] = k

\* twodo://x-callback-url/add?
T_addPrefix ==
    <<"t", "w", "o", "d", "o", ":", "/", "/", "x", "-", "c", "a", "l", "l", "b", "a", "c",
      "k", "-", "u", "r", "l", "/", "a", "d", "d", "?">>

\* task=Meeting&due=2026-03-01&dueTime=14%3A30
T_example ==
    <<"t", "a", "s", "k", "=", "M", "e", "e", "t", "i", "n", "g", "&", "d", "u", "e", "=",
      "2", "0", "2", "6", "-", "0", "3", "-", "0", "1", "&", "d", "u", "e", "T", "i", "m",
      "e", "=", "1", "4", "%", "3", "A", "3", "0">>

\* C16: a create URI is the prefix twodo://x-callback-url/add? followed by its
\* key=value pairs joined by "&"; task is the first key and the keys follow one
\* another in the order of KeyOrder; the request Meeting / 2026-03-01 / 14:30 gives
\* a URI containing task=Meeting&due=2026-03-01&dueTime=14%3A30.
C16_StableOrder ==
    built.st = "url" =>
        LET u == built.url
            q == QueryPairs(u)
        IN  /\ Len(u) > Len(T_addPrefix)
            /\ SubSeq(u, 1, Len(T_addPrefix)) = T_addPrefix
            /\ u = T_addPrefix \o Join([i \in DOMAIN q |-> q[i].key \o <<"=">> \o q[i].val],
                                       <<"&">>)
            /\ q[1].key = K_task
            /\ \A i \in DOMAIN q : \E k \in DOMAIN KeyOrder : KeyOrder[k] = q[i].key
            /\ \A i \in DOMAIN q : \A j \in DOMAIN q :
                  i < j => KeyIndex(q[i].key) < KeyIndex(q[j].key)
            /\ req = [Kwargs(T_Meeting) EXCEPT !.due = T_due, !.due_time = T_dueTime] =>
                  Contains(u, T_example)

C16_Witness ==
    /\ built.st = "url"
    /\ req = [Kwargs(T_Meeting) EXCEPT !.due = T_due, !.due_time = T_dueTime]
    /\ Contains(built.url, T_example)
    /\ Len(QueryPairs(built.url)) = 4

-----------------------------------------------------------------------------
(* More properties of the protocol, checked under Spec. *)

\* No launch and no clipboard read is repeated: a single-launch call launches once
\* and reads the clipboard at most once, a batch call launches each title at most
\* once and in turn, and a failed launch or a finished read is followed by neither.
AtMostOnce(c) ==
    /\ call[c].op \in SingleLaunchOps =>
          /\ Count(trace[c], "launch") = 1
          /\ Count(trace[c], "clip_read") <= 1
          /\ Has(trace[c], "launch_failed") => trace[c] = <<"launch", "launch_failed", "return">>
          /\ Has(trace[c], "clip_done") =>
                /\ Ended(c)
                /\ trace[c][Len(trace[c]) - 1] = "clip_done"
    /\ (call[c].op = "add_multiple" /\ Has(trace[c], "launch")) =>
          /\ Count(trace[c], "launch") <= call[c].i
          /\ call[c].i <= Len(call[c].params.tasks)
          /\ Len(LaunchResults(trace[c])) <= Count(trace[c], "launch")
          /\ Count(trace[c], "clip_read") = 0

\* C17: nothing is retried, and a batch call of N titles that ends has launched
\* exactly N times.
C17_NothingRetried ==
    \A c \in Slots :
        /\ AtMostOnce(c)
        /\ (call[c].op = "add_multiple" /\ Ended(c)) =>
              Count(trace[c], "launch") = Len(call[c].params.tasks)

IsPrefix(s, t) == Len(s) <= Len(t) /\ SubSeq(t, 1, Len(s)) = s

\* The step sequences of an identifier-requesting call: the launch, its result,
\* then for a successful launch the whole settle sleep, the clipboard read, its
\* completion and the return (or the exception of the read).
ConfirmPaths ==
    {<<"launch", "launch_ok", "settle", "clip_read", "clip_done", "return">>,
     <<"launch", "launch_ok", "settle", "clip_read", "clip_done", "raised">>,
     <<"launch", "launch_failed", "return">>,
     <<"launch", "launch_raised", "raised">>}

\* The call in slot c requests an identifier.
RequestsIdentifier(c) ==
    \/ call[c].op = "get_task_id"
    \/ call[c].op = "add" /\ call[c].params.save_in_clipboard

\* C18: an identifier-requesting call goes launch, result, settle sleep, clipboard
\* read, return, in that order: the read starts only after the launch reported
\* success and the sleep is over, and the envelope of a successful launch is
\* returned only after the read has completed.
C18_CallOrder ==
    \A c \in Slots :
        RequestsIdentifier(c) =>
            /\ \E path \in ConfirmPaths : IsPrefix(trace[c], path)
            /\ call[c].pc = "launching" => ~Has(trace[c], "clip_read")
            /\ call[c].pc = "settling" => trace[c] = <<"launch", "launch_ok", "settle">>
            /\ call[c].pc = "reading" =>
                  trace[c] = <<"launch", "launch_ok", "settle", "clip_read">>
            /\ (call[c].pc = "returned" /\ Has(trace[c], "launch_ok")) =>
                  Has(trace[c], "clip_done")

C18_Witness ==
    \E c \in Slots :
        /\ call[c].op = "add" /\ call[c].params.save_in_clipboard
        /\ trace[c] = <<"launch", "launch_ok", "settle", "clip_read", "clip_done", "return">>
        /\ call[c].ret.uid = T_uidB

\* What may stand before step k of a batch call's trace, and after it.
BatchStepInOrder(tr, k) ==
    CASE tr[k] = "launch" -> k = 1 \/ tr[k - 1] = "delay_done"
      [] tr[k] \in {"launch_ok", "launch_failed"} ->
            tr[k - 1] = "launch" /\ k < Len(tr) /\ tr[k + 1] = "delay"
      [] tr[k] = "launch_raised" -> tr[k - 1] = "launch"
      [] tr[k] = "delay" -> tr[k - 1] \in {"launch_ok", "launch_failed"}
      [] tr[k] = "delay_done" -> tr[k - 1] = "delay"
      [] tr[k] = "return" -> tr[k - 1] = "delay_done"
      [] tr[k] = "raised" -> k = Len(tr)
      [] OTHER -> FALSE

\* C19: a batch call launches its titles one at a time in the order given; a launch
\* starts only as the first step or right after the sleep that follows the launch
\* before it is over; every launch that reported success or failure is followed by
\* the sleep; and the envelope is returned only after the sleep of the last launch.
C19_BatchSequential ==
    \A c \in Slots :
        call[c].op = "add_multiple" =>
            LET tr == trace[c]
                launches == Count(tr, "launch")
                inflight == launches - Len(LaunchResults(tr))
            IN  /\ \A k \in 1..Len(tr) : BatchStepInOrder(tr, k)
                /\ inflight \in {0, 1}
                /\ inflight = 1 <=> call[c].pc = "launching"
                /\ call[c].pc = "launching" =>
                      /\ call[c].item.task = call[c].params.tasks[launches]
                      /\ KeyValue(call[c].url, K_task) = quote(call[c].params.tasks[launches])
                /\ Len(call[c].results) = Count(tr, "launch_ok") + Count(tr, "launch_failed")
                /\ \A j \in 1..Len(call[c].results) :
                      call[c].results[j].task = call[c].params.tasks[j]

C19_Witness ==
    \E c \in Slots :
        /\ call[c].op = "add_multiple"
        /\ call[c].params.tasks = << <<"b">>, <<"a">> >>
        /\ trace[c] = <<"launch", "launch_failed", "delay", "delay_done",
                        "launch", "launch_ok", "delay", "delay_done", "return">>

-----------------------------------------------------------------------------
(* More properties of two calls in flight, checked under SpecRace. *)

\* C20: a lookup for which the app wrote nothing on the clipboard returns the
\* not-found failure, whatever the clipboard held before the call.
C20_NoForeignIdentifier ==
    \A c \in Slots :
        (call[c].op = "get_task_id" /\ call[c].pc = "returned"
            /\ Has(trace[c], "launch_ok") /\ ~Has(trace[c], "app_write")) =>
            /\ ~call[c].ret.success
            /\ call[c].ret.error.fmt = NotFoundFmt

-----------------------------------------------------------------------------
(* The echoed list of a create call, checked under Spec. *)

\* C21: the list a successful create call echoes is "(default)" exactly when the
\* URI it launched has no forlist key, and otherwise the decoded forlist value of
\* that URI.
C21_ListAgreesWithUri ==
    \A c \in Slots :
        (call[c].op = "add" /\ call[c].pc = "returned" /\ call[c].ret.success) =>
            /\ call[c].ret.list = T_default <=> KeyCount(call[c].url, K_forlist) = 0
            /\ KeyCount(call[c].url, K_forlist) # 0 =>
                  call[c].ret.list = unquote(KeyValue(call[c].url, K_forlist))

====
